---- MODULE Spec2Model ----
(***************************************************************************)
(* Model of the clinic-assistant client: the session orchestrator (App),  *)
(* the gateway module geminiService and the handlers of the screens that  *)
(* drive them.                                                             *)
(*                                                                         *)
(* Granularity.  JavaScript runs a handler, or the continuation of an     *)
(* async function after an await, to its next await without interleaving, *)
(* and React (automatic batching) commits the state updates of such a run *)
(* together.  One action of the model is therefore one such run: a UI     *)
(* event handler up to its first await on the network or a timer, or the  *)
(* continuation that runs when a remote call or timer completes.  An      *)
(* await on an already settled promise (the crisis short-circuit of       *)
(* fileSearch) resumes in a microtask, before any other event, and stays  *)
(* inside the action.                                                      *)
(*                                                                         *)
(* Strings whose characters the code inspects (toLowerCase, includes,     *)
(* trim) are sequences of one-character strings; a non-ASCII character is *)
(* written by its code point, "U60F3".  Display texts the code only       *)
(* stores are identifiers.                                                 *)
(*                                                                         *)
(* App.patientName is written by handlePatientLogin and read nowhere; it  *)
(* is not part of the state.                                               *)
(***************************************************************************)
EXTENDS Integers, Sequences, FiniteSets, TLC

\* ---------------------------------------------------------------- bounds
MaxRuns  == 2      \* provisioning runs started in one behaviour
MaxFiles == 2      \* length of the pending file list
MaxPolls == 1      \* status checks that report "not done" per upload
MaxChat  == 3      \* chat length up to which a new message is sent
MaxResets == 2     \* form-reset timers of the binding form pending at once
MaxItems == 5      \* length of the array a suggested-questions payload holds
MaxLines == 3      \* lines of a rendered text

\* ------------------------------------------------------------- constants
\* null, for every nullable value (each of which is a record)
Null == [null |-> TRUE]

\* the name createRagStore returns for the n-th store the remote creates
StoreName(n) == [name |-> n]
Stores == {StoreName(n) : n \in 1..MaxRuns}
FileRefs == {"a.pdf", "b.txt"}

UpperCase == <<"A","B","C","D","E","F","G","H","I","J","K","L","M",
               "N","O","P","Q","R","S","T","U","V","W","X","Y","Z">>
LowerCase == <<"a","b","c","d","e","f","g","h","i","j","k","l","m",
               "n","o","p","q","r","s","t","u","v","w","x","y","z">>

CRISIS_KEYWORDS ==
    << <<"U60F3", "U6B7B">>,
       <<"U81EA", "U6BBA">>,
       <<"s", "u", "i", "c", "i", "d", "e">>,
       <<"h", "u", "r", "t", " ", "m", "y", "s", "e", "l", "f">>,
       <<"U7D55", "U671B">>,
       <<"U4E0D", "U60F3", "U6D3B">>,
       <<"U7D50", "U675F", "U751F", "U547D">>,
       <<"U75DB", "U82E6">>,
       <<"U627E", "U4E0D", "U5230", "U51FA", "U53E3">> >>

KEY_NOT_VALID ==
    <<"a","p","i"," ","k","e","y"," ","n","o","t"," ","v","a","l","i","d">>
ENTITY_NOT_FOUND ==
    <<"r","e","q","u","e","s","t","e","d"," ","e","n","t","i","t","y"," ",
      "w","a","s"," ","n","o","t"," ","f","o","u","n","d">>

\* failure messages of the remote service and of the gateway itself
ERR_BAD_KEY ==
    <<"A","P","I"," ","k","e","y"," ","n","o","t"," ","v","a","l","i","d">>
ERR_NOT_FOUND ==
    <<"R","e","q","u","e","s","t","e","d"," ","e","n","t","i","t","y"," ",
      "w","a","s"," ","n","o","t"," ","f","o","u","n","d">>
ERR_FETCH == <<"F","a","i","l","e","d"," ","t","o"," ","f","e","t","c","h">>
ERR_NO_NAME ==
    <<"F","a","i","l","e","d"," ","t","o"," ","c","r","e","a","t","e"," ",
      "R","A","G"," ","s","t","o","r","e",":"," ","n","a","m","e"," ",
      "i","s"," ","m","i","s","s","i","n","g",".">>
ERR_NO_API_KEY ==
    <<"A","n"," ","A","P","I"," ","K","e","y"," ","m","u","s","t"," ",
      "b","e"," ","s","e","t">>
RemoteErrors == {ERR_BAD_KEY, ERR_NOT_FOUND, ERR_FETCH}

\* texts a user types into the chat input
Q_HOURS   == <<"H","o","u","r","s","?">>
Q_SUICIDE == <<"S","U","I","C","I","D","E">>
Q_ZH      == <<"U6211","U60F3","U81EA","U6BBA">>
Q_BLANK   == <<" ">>
UserTexts == {Q_HOURS, Q_SUICIDE, Q_ZH, Q_BLANK}

\* display texts (identifiers for the localized literals of the source);
\* a text that goes into a chat message is a one-token sequence
MSG_KEY_REQUIRED  == [text |-> "please-select-your-api-key"]
MSG_KEY_INVALID   == [text |-> "selected-api-key-invalid"]
MSG_INIT_FAILED   == "initialization-failed"
MSG_PHONE_INVALID == [text |-> "enter-a-valid-phone-number"]
MSG_NOT_FOUND     == [text |-> "record-not-found-check-phone-and-birthday"]
MSG_START_FAILED  == "session-start-failed"
MSG_QUERY_FAILED  == "get-response-failed"
MSG_APOLOGY       == <<"sorry-an-error-occurred-please-retry">>
MSG_CRISIS        == <<"CRISIS_DETECTED">>
DOC_GENERIC       == "clinic-ai-assistant"
DOC_KNOWLEDGE     == "clinic-knowledge-base"
PROGRESS_INIT     == "initializing-clinic-database"
PROGRESS_PROCESS  == "processing-knowledge-base"
PROGRESS_IMPORT   == "importing-document"
PROGRESS_GENERATE == "generating-suggested-questions"
PROGRESS_READY    == "system-ready"
ANSWER            == <<"answer-text">>
CHUNKS            == <<"chunk">>
WelcomeText(name) == <<"welcome-back", name>>

\* outcomes of a remote call
Ok         == [kind |-> "ok"]
NoName     == [kind |-> "noname"]
Done       == [kind |-> "done"]
Pending    == [kind |-> "pending"]
Failure(m) == [kind |-> "error", message |-> m]
Failures   == {Failure(m) : m \in RemoteErrors}
QueryFailures == {Failure(ERR_FETCH)}

\* ------------------------------------------------------- string functions
\* String.prototype.toLowerCase on one character
LowerOf ==
    [c \in {UpperCase[i] : i \in 1..26} |->
        LowerCase[CHOOSE i \in 1..26 : UpperCase[i] = c]]

ToLowerChar(c) == IF c \in DOMAIN LowerOf THEN LowerOf[c] ELSE c

ToLowerCase(s) == [i \in 1..Len(s) |-> ToLowerChar(s[i])]

\* String.prototype.includes
Includes(s, sub) ==
    \E i \in 0..(Len(s) - Len(sub)) : \A j \in 1..Len(sub) : s[i + j] = sub[j]

\* String.prototype.trim (the only white space that occurs is " ")
RECURSIVE TrimLeft(_)
TrimLeft(s) == IF s # <<>> /\ Head(s) = " " THEN TrimLeft(Tail(s)) ELSE s

RECURSIVE TrimRight(_)
TrimRight(s) ==
    IF s # <<>> /\ s[Len(s)] = " "
    THEN TrimRight(SubSeq(s, 1, Len(s) - 1))
    ELSE s

Trim(s) == TrimRight(TrimLeft(s))

\* variant of the keyword test that compares the query as typed
IsCrisisQuery_CaseSensitive(query) ==
    \E k \in 1..Len(CRISIS_KEYWORDS) : Includes(query, CRISIS_KEYWORDS[k])

\* geminiService.fileSearch: the keyword test of the crisis guardrail
IsCrisisQuery(query) ==
    LET lowerQuery == ToLowerCase(query)
    IN  \E k \in 1..Len(CRISIS_KEYWORDS) : Includes(lowerQuery, CRISIS_KEYWORDS[k])

\* variant of the invalid-credential test that compares the message as thrown
IsInvalidKeyError_CaseSensitive(message) ==
    \/ Includes(message, KEY_NOT_VALID)
    \/ Includes(message, ENTITY_NOT_FOUND)

\* handleAdminSetupComplete, catch block: the invalid-credential test
IsInvalidKeyError(message) ==
    LET errorMessage == ToLowerCase(message)
    IN  \/ Includes(errorMessage, KEY_NOT_VALID)
        \/ Includes(errorMessage, ENTITY_NOT_FOUND)

\* ------------------------------------------- suggested-question payloads
DEFAULT_QUESTIONS_4 ==
    <<"default-opening-hours", "default-how-to-book",
      "default-first-visit", "default-insurance">>
DEFAULT_QUESTIONS_2 == <<"default-opening-hours", "default-how-to-book">>

Str(v) == [type |-> "string", v |-> v]
Num(v) == [type |-> "number", v |-> v]

\* what the remote generateContent call of generateExampleQuestions yields:
\*   kind "error"      the call rejects
\*   kind "json"       response.text parses as JSON to `value`
\*   kind "fenced"     response.text does not parse, holds a ```json fence
\*                     whose content parses to `value`
\*   kind "fencedbad"  as above, but the fenced content does not parse
\*   kind "garbage"    response.text neither parses nor holds a fence
\*   kind "notext"     the response carries no text (response.text.trim()
\*                     throws a TypeError)
P_FIVE    == [kind |-> "json", value |-> [type |-> "array",
                items |-> <<Str("q1"), Str("q2"), Str("q3"), Str("q4"), Str("q5")>>]]
P_MIXED   == [kind |-> "json", value |-> [type |-> "array",
                items |-> <<Str("q1"), Num("7")>>]]
P_OBJECT  == [kind |-> "json", value |-> [type |-> "object", items |-> <<>>]]
P_FENCED  == [kind |-> "fenced", value |-> [type |-> "array",
                items |-> <<Str("q1"), Str("q2")>>]]
P_FENCEDBAD == [kind |-> "fencedbad", value |-> [type |-> "object", items |-> <<>>]]
P_GARBAGE == [kind |-> "garbage", value |-> [type |-> "object", items |-> <<>>]]
P_ERROR   == [kind |-> "error", value |-> [type |-> "object", items |-> <<>>]]
P_NUMBERS == [kind |-> "json", value |-> [type |-> "array",
                items |-> <<Num("1"), Num("2")>>]]
P_NOTEXT  == [kind |-> "notext", value |-> [type |-> "object", items |-> <<>>]]
Payloads  == {P_FIVE, P_MIXED, P_OBJECT, P_FENCED, P_FENCEDBAD, P_GARBAGE,
              P_ERROR, P_NUMBERS, P_NOTEXT}
\* the answers drawn while a session is provisioned
SessionPayloads == {P_FIVE, P_ERROR}

\* Array.prototype.filter(q => typeof q === 'string')
RECURSIVE FilterStrings(_)
FilterStrings(items) ==
    IF items = <<>> THEN <<>>
    ELSE IF Head(items).type = "string"
         THEN <<Head(items).v>> \o FilterStrings(Tail(items))
         ELSE FilterStrings(Tail(items))

\* Array.prototype.slice(0, n)
Slice0(seq, n) == SubSeq(seq, 1, IF Len(seq) < n THEN Len(seq) ELSE n)

\* variant of generateExampleQuestions that returns the whole filtered array
GenerateExampleQuestions_Uncut(payload) ==
    IF payload.kind \in {"error", "fencedbad", "notext"}
    THEN DEFAULT_QUESTIONS_2
    ELSE IF payload.kind = "garbage"
    THEN DEFAULT_QUESTIONS_4
    ELSE IF payload.value.type = "array"
    THEN FilterStrings(payload.value.items)
    ELSE DEFAULT_QUESTIONS_4

\* geminiService.generateExampleQuestions, after the initialized check
GenerateExampleQuestions(payload) ==
    IF payload.kind \in {"error", "fencedbad", "notext"}
    THEN DEFAULT_QUESTIONS_2
    ELSE IF payload.kind = "garbage"
    THEN DEFAULT_QUESTIONS_4
    ELSE IF payload.value.type = "array"
    THEN Slice0(FilterStrings(payload.value.items), 4)
    ELSE DEFAULT_QUESTIONS_4

\* ------------------------------------------------------- patient database
\* PatientLogin.MOCK_HIS_DB
MOCK_HIS_DB_Keys == {"0912345678", "0987654321"}
MOCK_HIS_DB ==
    [k \in MOCK_HIS_DB_Keys |->
        IF k = "0912345678"
        THEN [name |-> "Chen-Da-Ming", birthday |-> "19900101"]
        ELSE [name |-> "Lin-Xiao-Mei", birthday |-> "19950520"]]
Phones    == {"0912345678", "0900000000", "0912"}
Birthdays == {"19900101", "19950520"}

\* ------------------------------------------------------------------ state
VARIABLES
    status,              \* App: AppStatus
    isApiKeySelected,    \* App: credential-selected flag
    apiKeyError,         \* App: inline credential error text
    error,               \* App: full-screen error text
    uploadProgress,      \* App: progress record or Null
    activeRagStoreName,  \* App: active store id or Null
    chatHistory,         \* App: sequence of ChatMessage
    isQueryLoading,      \* App
    exampleQuestions,    \* App
    documentName,        \* App
    files,               \* App: pending files
    ragStoreNameRef,     \* App: ref read by the beforeunload hook
    gates,               \* the checks the latest send request evaluated, in order
    ai,                  \* geminiService: the client has been constructed
    runs,                \* handleAdminSetupComplete invocations in progress
    nRuns,               \* number of invocations that entered Uploading
    queries,             \* handleSendMessage invocations awaiting fileSearch
    nStores,             \* remote: stores created so far (ids 1..nStores)
    deleteCalls,         \* remote: delete requests received, per store
    login,               \* PatientLogin: form state and pending reset timers
    markdown,            \* renderMarkdown: its argument `text`
    lineNo,              \* renderMarkdown: lines of the text consumed by the loop
    html,                \* renderMarkdown: output built so far
    listType,            \* renderMarkdown: "ul", "ol" or "null"
    paraBuffer,          \* renderMarkdown: pending paragraph content
    returned             \* renderMarkdown: the call has returned html

vars == <<status, isApiKeySelected, apiKeyError, error, uploadProgress,
          activeRagStoreName, chatHistory, isQueryLoading, exampleQuestions,
          documentName, files, ragStoreNameRef, ai, runs, nRuns, queries,
          nStores, deleteCalls, login, gates,
          markdown, lineNo, html, listType, paraBuffer, returned>>

\* the variables of a renderMarkdown call
renderVars == <<markdown, lineNo, html, listType, paraBuffer, returned>>

\* PatientLogin: the state of a freshly mounted binding form
LoginIdle == [step |-> "PHONE", phone |-> "", birthday |-> "",
              error |-> Null, timers |-> 0]

\* a handleAdminSetupComplete invocation: where it is suspended (pc), the
\* `files` it closed over, its local ragStoreName, the loop index (1-based),
\* the "not done" polls of the current upload, and the gateway calls issued
NoRun == [pc |-> "none", files |-> <<>>, store |-> Null, i |-> 0,
          polls |-> 0, calls |-> <<>>]

AppInit ==
    /\ status = "Initializing"
    /\ isApiKeySelected = FALSE
    /\ apiKeyError = Null
    /\ error = Null
    /\ uploadProgress = Null
    /\ activeRagStoreName = Null
    /\ chatHistory = <<>>
    /\ isQueryLoading = FALSE
    /\ exampleQuestions = <<>>
    /\ documentName = ""
    /\ files = <<>>
    /\ ragStoreNameRef = Null
    /\ ai = FALSE
    /\ runs = [r \in 1..MaxRuns |-> NoRun]
    /\ nRuns = 0
    /\ queries = <<>>
    /\ nStores = 0
    /\ deleteCalls = [s \in Stores |-> 0]
    /\ login = LoginIdle
    /\ gates = <<>>

\* renderMarkdown before a call: its locals as declared at lines 47-49
RenderIdle ==
    /\ lineNo = 0
    /\ html = <<>>
    /\ listType = "null"
    /\ paraBuffer = <<>>
    /\ returned = FALSE

Init ==
    /\ AppInit
    /\ markdown = <<>>
    /\ RenderIdle

\* App.handleError: the text and the status it sets
ErrorText(message, err) == [message |-> message, err |-> err]

\* App.renderContent mounts PatientLogin exactly while status is Binding.
\* A step of the rest of the client leaves the mounted form alone; once the
\* form is unmounted its state is gone and its timers no longer act on it,
\* and the next mount starts from the initial form state.
LoginFrame ==
    login' = IF status = "Binding" /\ status' = "Binding" THEN login
                                                         ELSE LoginIdle

\* App: useEffect(() => setStatus(AppStatus.Welcome), [])
Startup ==
    /\ status = "Initializing"
    /\ status' = "Welcome"
    /\ UNCHANGED <<isApiKeySelected, apiKeyError, error, uploadProgress,
                   activeRagStoreName, chatHistory, isQueryLoading,
                   exampleQuestions, documentName, files, ragStoreNameRef,
                   ai, runs, nRuns, queries, nStores, deleteCalls>>
    /\ LoginFrame
    /\ UNCHANGED <<gates, renderVars>>

\* variant of checkApiKey that also dismisses the credential error
CheckApiKey_ClearsError(probe) ==
    /\ status # "Initializing"
    /\ isApiKeySelected' = (probe = "true")
    /\ apiKeyError' = Null
    /\ ragStoreNameRef' = activeRagStoreName
    /\ UNCHANGED <<status, error, uploadProgress,
                   activeRagStoreName, chatHistory, isQueryLoading,
                   exampleQuestions, documentName, files, ai, runs, nRuns,
                   queries, nStores, deleteCalls>>
    /\ LoginFrame
    /\ UNCHANGED <<gates, renderVars>>

\* App.checkApiKey: hasSelectedApiKey() answers true or false, or rejects.
\* Runs at mount, on regained visibility and on focus.
CheckApiKey(probe) ==
    /\ status # "Initializing"
    /\ isApiKeySelected' = (probe = "true")
    /\ ragStoreNameRef' = activeRagStoreName
    /\ UNCHANGED <<status, apiKeyError, error, uploadProgress,
                   activeRagStoreName, chatHistory, isQueryLoading,
                   exampleQuestions, documentName, files, ai, runs, nRuns,
                   queries, nStores, deleteCalls>>
    /\ LoginFrame
    /\ UNCHANGED <<gates, renderVars>>

\* App.handleSelectKey (WelcomeScreen shows its button while no credential
\* is selected): openSelectKey(), then checkApiKey()
HandleSelectKey(probe) ==
    /\ status = "Welcome"
    /\ ~isApiKeySelected
    /\ isApiKeySelected' = (probe = "true")
    /\ ragStoreNameRef' = activeRagStoreName
    /\ UNCHANGED <<status, apiKeyError, error, uploadProgress,
                   activeRagStoreName, chatHistory, isQueryLoading,
                   exampleQuestions, documentName, files, ai, runs, nRuns,
                   queries, nStores, deleteCalls>>
    /\ LoginFrame
    /\ UNCHANGED <<gates, renderVars>>

\* WelcomeScreen.handleFileChange / handleDrop
AddFile(f) ==
    /\ status = "Welcome"
    /\ Len(files) < MaxFiles
    /\ files' = Append(files, f)
    /\ ragStoreNameRef' = activeRagStoreName
    /\ UNCHANGED <<status, isApiKeySelected, apiKeyError, error,
                   uploadProgress, activeRagStoreName, chatHistory,
                   isQueryLoading, exampleQuestions, documentName, ai, runs,
                   nRuns, queries, nStores, deleteCalls>>
    /\ LoginFrame
    /\ UNCHANGED <<gates, renderVars>>

\* WelcomeScreen.handleRemoveFile
RemoveFile(indexToRemove) ==
    /\ status = "Welcome"
    /\ indexToRemove \in 1..Len(files)
    /\ files' = SubSeq(files, 1, indexToRemove - 1)
                  \o SubSeq(files, indexToRemove + 1, Len(files))
    /\ ragStoreNameRef' = activeRagStoreName
    /\ UNCHANGED <<status, isApiKeySelected, apiKeyError, error,
                   uploadProgress, activeRagStoreName, chatHistory,
                   isQueryLoading, exampleQuestions, documentName, ai, runs,
                   nRuns, queries, nStores, deleteCalls>>
    /\ LoginFrame
    /\ UNCHANGED <<gates, renderVars>>

\* App.handleAdminSetupComplete up to `await createRagStore`, invoked by the
\* WelcomeScreen buttons (enabled only while a credential is selected).
\* initOk: whether geminiService.initialize() constructs the client.
HandleAdminSetupStart(initOk) ==
    /\ status = "Welcome"
    /\ isApiKeySelected
    /\ nRuns < MaxRuns
    /\ apiKeyError' = Null
    /\ ragStoreNameRef' = activeRagStoreName
    /\ IF ~initOk
       THEN /\ error' = ErrorText(MSG_INIT_FAILED, ERR_NO_API_KEY)
            /\ status' = "Error"
            /\ UNCHANGED <<uploadProgress, ai, runs, nRuns>>
       ELSE /\ ai' = TRUE
            /\ status' = "Uploading"
            /\ uploadProgress' = [current |-> 0, total |-> Len(files) + 2,
                                  message |-> PROGRESS_INIT]
            /\ runs' = [runs EXCEPT ![nRuns + 1] =
                          [pc |-> "create", files |-> files, store |-> Null,
                           i |-> 0, polls |-> 0, calls |-> << <<"create">> >>]]
            /\ nRuns' = nRuns + 1
            /\ UNCHANGED error
    /\ UNCHANGED <<isApiKeySelected, activeRagStoreName, chatHistory,
                   isQueryLoading, exampleQuestions, documentName, files,
                   queries, nStores, deleteCalls>>
    /\ LoginFrame
    /\ UNCHANGED <<gates, renderVars>>

\* variant of the rejection that reports through handleError
HandleAdminSetupRejected_Fatal ==
    /\ status = "Welcome"
    /\ ~isApiKeySelected
    /\ apiKeyError' = MSG_KEY_REQUIRED
    /\ error' = ErrorText(MSG_INIT_FAILED, ERR_NO_API_KEY)
    /\ status' = "Error"
    /\ ragStoreNameRef' = activeRagStoreName
    /\ UNCHANGED <<isApiKeySelected, uploadProgress, activeRagStoreName,
                   chatHistory, isQueryLoading, exampleQuestions,
                   documentName, files, ai, runs, nRuns, queries, nStores,
                   deleteCalls>>
    /\ LoginFrame
    /\ UNCHANGED <<gates, renderVars>>

\* App.handleAdminSetupComplete invoked while no credential is selected:
\* the inline error is set and the handler throws before anything else.
\* (WelcomeScreen disables its two start buttons in this state; this is the
\* handler's own guard, for any caller of the onUpload prop.)
HandleAdminSetupRejected ==
    /\ status = "Welcome"
    /\ ~isApiKeySelected
    /\ apiKeyError' = MSG_KEY_REQUIRED
    /\ ragStoreNameRef' = activeRagStoreName
    /\ UNCHANGED <<status, isApiKeySelected, error, uploadProgress,
                   activeRagStoreName, chatHistory, isQueryLoading,
                   exampleQuestions, documentName, files, ai, runs, nRuns,
                   queries, nStores, deleteCalls>>
    /\ LoginFrame
    /\ UNCHANGED <<gates, renderVars>>

\* handleAdminSetupComplete, catch and finally blocks, for run r
ProvisionFailed(r, message) ==
    /\ IF IsInvalidKeyError(message)
       THEN /\ apiKeyError' = MSG_KEY_INVALID
            /\ isApiKeySelected' = FALSE
            /\ status' = "Welcome"
            /\ UNCHANGED error
       ELSE /\ error' = ErrorText(MSG_START_FAILED, message)
            /\ status' = "Error"
            /\ UNCHANGED <<apiKeyError, isApiKeySelected>>
    /\ uploadProgress' = Null
    /\ runs' = [runs EXCEPT ![r] = NoRun]
    /\ ragStoreNameRef' = activeRagStoreName

\* the text of the fileName field while file i of n is uploaded
FileLabel(i, n, name) == [i |-> i, n |-> n, name |-> name]
NoFileLabel == [name |-> ""]

\* variant of the progress patch that shows the loop index i, not i + 1
ProgressPatch_ZeroBased(prev, current, fileName) ==
    IF prev # Null /\ "total" \in DOMAIN prev
    THEN [current |-> current - 1, total |-> prev.total,
          message |-> PROGRESS_IMPORT, fileName |-> fileName]
    ELSE [current |-> current - 1,
          message |-> PROGRESS_IMPORT, fileName |-> fileName]

\* setUploadProgress(prev => ({...prev!, current, message, fileName})):
\* the fields of prev are kept unless overwritten; spreading null adds none
ProgressPatch(prev, current, fileName) ==
    IF prev # Null /\ "total" \in DOMAIN prev
    THEN [current |-> current, total |-> prev.total,
          message |-> PROGRESS_IMPORT, fileName |-> fileName]
    ELSE [current |-> current,
          message |-> PROGRESS_IMPORT, fileName |-> fileName]

\* variant of the loop that walks the pending files from the last to the first
ProvisionNext_Reversed(r, store, i, prev) ==
    LET run == runs[r]
        n   == Len(run.files)
    IN  IF i <= n
        THEN /\ uploadProgress' =
                   ProgressPatch(prev, i, FileLabel(i, n, run.files[n + 1 - i]))
             /\ runs' = [runs EXCEPT ![r] =
                   [run EXCEPT !.pc = "upload", !.store = store, !.i = i,
                     !.polls = 0,
                     !.calls = Append(@, <<"upload", store, run.files[n + 1 - i]>>)]]
        ELSE /\ uploadProgress' = [current |-> n + 1, total |-> n + 2,
                                   message |-> PROGRESS_GENERATE,
                                   fileName |-> NoFileLabel]
             /\ runs' = [runs EXCEPT ![r] =
                   [run EXCEPT !.pc = "generate", !.store = store, !.i = i,
                     !.polls = 0,
                     !.calls = Append(@, <<"generate", store>>)]]

\* handleAdminSetupComplete: the loop iteration that starts the upload of
\* file i, or, past the last file, the question-generation step
ProvisionNext(r, store, i, prev) ==
    LET run == runs[r]
        n   == Len(run.files)
    IN  IF i <= n
        THEN /\ uploadProgress' =
                   ProgressPatch(prev, i, FileLabel(i, n, run.files[i]))
             /\ runs' = [runs EXCEPT ![r] =
                   [run EXCEPT !.pc = "upload", !.store = store, !.i = i,
                     !.polls = 0,
                     !.calls = Append(@, <<"upload", store, run.files[i]>>)]]
        ELSE /\ uploadProgress' = [current |-> n + 1, total |-> n + 2,
                                   message |-> PROGRESS_GENERATE,
                                   fileName |-> NoFileLabel]
             /\ runs' = [runs EXCEPT ![r] =
                   [run EXCEPT !.pc = "generate", !.store = store, !.i = i,
                     !.polls = 0,
                     !.calls = Append(@, <<"generate", store>>)]]

\* handleAdminSetupComplete resumes from `await createRagStore`.
\* out: Ok (the remote returns a new, named store), NoName (the answer
\* carries no name) or a remote failure.
CreateReturn(r, out) ==
    /\ runs[r].pc = "create"
    /\ IF out = Ok
       THEN /\ nStores' = nStores + 1
            /\ ProvisionNext(r, StoreName(nStores + 1), 1,
                 [current |-> 1, total |-> Len(runs[r].files) + 2,
                  message |-> PROGRESS_PROCESS])
            /\ ragStoreNameRef' = activeRagStoreName
            /\ UNCHANGED <<status, isApiKeySelected, apiKeyError, error>>
       ELSE /\ ProvisionFailed(r, IF out = NoName THEN ERR_NO_NAME
                                                   ELSE out.message)
            /\ UNCHANGED nStores
    /\ UNCHANGED <<activeRagStoreName, chatHistory, isQueryLoading,
                   exampleQuestions, documentName, files, ai, nRuns,
                   queries, deleteCalls>>
    /\ LoginFrame
    /\ UNCHANGED <<gates, renderVars>>

\* variant of uploadToRagStore that returns on the first answer, done or not
OperationReturn_NoPolling(r, out) ==
    LET run == runs[r]
    IN  /\ IF out \in {Done, Pending}
           THEN /\ ProvisionNext(r, run.store, run.i + 1, uploadProgress)
                /\ ragStoreNameRef' = activeRagStoreName
                /\ UNCHANGED <<status, isApiKeySelected, apiKeyError, error>>
           ELSE ProvisionFailed(r, out.message)
        /\ UNCHANGED <<activeRagStoreName, chatHistory, isQueryLoading,
                       exampleQuestions, documentName, files, ai, nRuns,
                       queries, nStores, deleteCalls>>

\* geminiService.uploadToRagStore: the operation returned by the upload call
\* or by a status check is examined: done ends the upload, otherwise another
\* status check is issued after the delay.
\* out: Done, Pending or a remote failure.
OperationReturn(r, out) ==
    LET run == runs[r]
    IN  /\ IF out = Done
           THEN /\ ProvisionNext(r, run.store, run.i + 1, uploadProgress)
                /\ ragStoreNameRef' = activeRagStoreName
                /\ UNCHANGED <<status, isApiKeySelected, apiKeyError, error>>
           ELSE IF out = Pending
           THEN /\ run.polls < MaxPolls
                /\ runs' = [runs EXCEPT ![r] =
                      [run EXCEPT !.pc = "poll", !.polls = @ + 1,
                        !.calls = Append(@, <<"poll", run.files[run.i]>>)]]
                /\ UNCHANGED <<status, isApiKeySelected, apiKeyError, error,
                               uploadProgress, ragStoreNameRef>>
           ELSE ProvisionFailed(r, out.message)
        /\ UNCHANGED <<activeRagStoreName, chatHistory, isQueryLoading,
                       exampleQuestions, documentName, files, ai, nRuns,
                       queries, nStores, deleteCalls>>

\* uploadToRagStore resumes from `await uploadToFileSearchStore`
UploadReturn(r, out) ==
    /\ runs[r].pc = "upload"
    /\ OperationReturn(r, out)
    /\ LoginFrame
    /\ UNCHANGED <<gates, renderVars>>

\* uploadToRagStore resumes from `await ai.operations.get`
PollReturn(r, out) ==
    /\ runs[r].pc = "poll"
    /\ OperationReturn(r, out)
    /\ LoginFrame
    /\ UNCHANGED <<gates, renderVars>>

\* handleAdminSetupComplete resumes from `await generateExampleQuestions`,
\* which absorbs every failure of its remote call
GenerateReturn(r, payload) ==
    LET n == Len(runs[r].files)
    IN  /\ runs[r].pc = "generate"
        /\ exampleQuestions' = GenerateExampleQuestions(payload)
        /\ uploadProgress' = [current |-> n + 2, total |-> n + 2,
                              message |-> PROGRESS_READY,
                              fileName |-> NoFileLabel]
        /\ runs' = [runs EXCEPT ![r].pc = "ready"]
        /\ ragStoreNameRef' = activeRagStoreName
        /\ UNCHANGED <<status, isApiKeySelected, apiKeyError, error,
                       activeRagStoreName, chatHistory, isQueryLoading,
                       documentName, files, ai, nRuns, queries, nStores,
                       deleteCalls>>
        /\ LoginFrame
        /\ UNCHANGED <<gates, renderVars>>

\* variant of the completion that labels every session as a knowledge base
ProvisionDone_KnowledgeLabel(r) ==
    /\ runs[r].pc = "ready"
    /\ documentName' = DOC_KNOWLEDGE
    /\ activeRagStoreName' = runs[r].store
    /\ chatHistory' = <<>>
    /\ status' = "Binding"
    /\ files' = <<>>
    /\ uploadProgress' = Null
    /\ runs' = [runs EXCEPT ![r] = NoRun]
    /\ ragStoreNameRef' = activeRagStoreName
    /\ UNCHANGED <<isApiKeySelected, apiKeyError, error, isQueryLoading,
                   exampleQuestions, ai, nRuns, queries, nStores,
                   deleteCalls>>
    /\ LoginFrame
    /\ UNCHANGED <<gates, renderVars>>

\* handleAdminSetupComplete resumes from the 500 ms hold: the session is
\* handed to patient binding; finally clears the progress
ProvisionDone(r) ==
    /\ runs[r].pc = "ready"
    /\ documentName' = IF Len(runs[r].files) > 0 THEN DOC_KNOWLEDGE
                                                   ELSE DOC_GENERIC
    /\ activeRagStoreName' = runs[r].store
    /\ chatHistory' = <<>>
    /\ status' = "Binding"
    /\ files' = <<>>
    /\ uploadProgress' = Null
    /\ runs' = [runs EXCEPT ![r] = NoRun]
    /\ ragStoreNameRef' = activeRagStoreName
    /\ UNCHANGED <<isApiKeySelected, apiKeyError, error, isQueryLoading,
                   exampleQuestions, ai, nRuns, queries, nStores,
                   deleteCalls>>
    /\ LoginFrame
    /\ UNCHANGED <<gates, renderVars>>

\* variant of the identity test that looks the phone up and stops there
Verified_PhoneOnly(phone, birthday) ==
    phone \in DOMAIN MOCK_HIS_DB

\* PatientLogin.handleBirthdaySubmit: patient && patient.birthday === birthday
Verified(phone, birthday) ==
    phone \in DOMAIN MOCK_HIS_DB /\ MOCK_HIS_DB[phone].birthday = birthday

\* PatientLogin.handleBirthdaySubmit with the phone and birthday entered;
\* on a match App.handlePatientLogin seeds the chat and enters Chatting
PatientLogin(phone, birthday) ==
    /\ status = "Binding"
    /\ IF Verified(phone, birthday)
       THEN /\ chatHistory' = << [role |-> "model",
                                  text |-> WelcomeText(MOCK_HIS_DB[phone].name)] >>
            /\ status' = "Chatting"
       ELSE UNCHANGED <<chatHistory, status>>
    /\ ragStoreNameRef' = activeRagStoreName
    /\ UNCHANGED <<isApiKeySelected, apiKeyError, error, uploadProgress,
                   activeRagStoreName, isQueryLoading, exampleQuestions,
                   documentName, files, ai, runs, nRuns, queries, nStores,
                   deleteCalls>>

\* PatientLogin: onChange of the phone input (shown at the phone step)
SetPhone(phone) ==
    /\ status = "Binding"
    /\ login.step = "PHONE"
    /\ login.phone # phone
    /\ login' = [login EXCEPT !.phone = phone]
    /\ UNCHANGED <<status, isApiKeySelected, apiKeyError, error,
                   uploadProgress, activeRagStoreName, chatHistory,
                   isQueryLoading, exampleQuestions, documentName, files,
                   ragStoreNameRef, ai, runs, nRuns, queries, nStores,
                   deleteCalls>>
    /\ UNCHANGED <<gates, renderVars>>

\* PatientLogin: onChange of the birthday input (shown at the birthday step)
SetBirthday(birthday) ==
    /\ status = "Binding"
    /\ login.step = "BIRTHDAY"
    /\ login.birthday # birthday
    /\ login' = [login EXCEPT !.birthday = birthday]
    /\ UNCHANGED <<status, isApiKeySelected, apiKeyError, error,
                   uploadProgress, activeRagStoreName, chatHistory,
                   isQueryLoading, exampleQuestions, documentName, files,
                   ragStoreNameRef, ai, runs, nRuns, queries, nStores,
                   deleteCalls>>
    /\ UNCHANGED <<gates, renderVars>>

\* variant of the phone submit that accepts a phone of any length
HandlePhoneSubmit_AnyLength ==
    /\ status = "Binding"
    /\ login.step = "PHONE"
    /\ login' = [login EXCEPT !.error = Null, !.step = "BIRTHDAY"]
    /\ UNCHANGED <<status, isApiKeySelected, apiKeyError, error,
                   uploadProgress, activeRagStoreName, chatHistory,
                   isQueryLoading, exampleQuestions, documentName, files,
                   ragStoreNameRef, ai, runs, nRuns, queries, nStores,
                   deleteCalls>>
    /\ UNCHANGED <<gates, renderVars>>

\* PatientLogin.handlePhoneSubmit
HandlePhoneSubmit ==
    /\ status = "Binding"
    /\ login.step = "PHONE"
    /\ login' = IF Len(login.phone) < 10
                THEN [login EXCEPT !.error = MSG_PHONE_INVALID]
                ELSE [login EXCEPT !.error = Null, !.step = "BIRTHDAY"]
    /\ UNCHANGED <<status, isApiKeySelected, apiKeyError, error,
                   uploadProgress, activeRagStoreName, chatHistory,
                   isQueryLoading, exampleQuestions, documentName, files,
                   ragStoreNameRef, ai, runs, nRuns, queries, nStores,
                   deleteCalls>>
    /\ UNCHANGED <<gates, renderVars>>

\* PatientLogin: the back button of the birthday step
LoginBack ==
    /\ status = "Binding"
    /\ login.step = "BIRTHDAY"
    /\ login' = [login EXCEPT !.step = "PHONE"]
    /\ UNCHANGED <<status, isApiKeySelected, apiKeyError, error,
                   uploadProgress, activeRagStoreName, chatHistory,
                   isQueryLoading, exampleQuestions, documentName, files,
                   ragStoreNameRef, ai, runs, nRuns, queries, nStores,
                   deleteCalls>>
    /\ UNCHANGED <<gates, renderVars>>

\* PatientLogin.handleBirthdaySubmit on the form as filled in: a match logs
\* the patient in (the form is unmounted), a mismatch shows the inline
\* error and starts the 2 s reset timer
HandleBirthdaySubmit ==
    /\ login.step = "BIRTHDAY"
    /\ PatientLogin(login.phone, login.birthday)
    /\ IF Verified(login.phone, login.birthday)
       THEN login' = LoginIdle
       ELSE /\ login.timers < MaxResets
            /\ login' = [login EXCEPT !.error = MSG_NOT_FOUND,
                                      !.timers = @ + 1]
    /\ UNCHANGED <<gates, renderVars>>

\* PatientLogin: the callback of the reset timer, on the mounted form
LoginResetTimer ==
    /\ status = "Binding"
    /\ login.timers > 0
    /\ login' = [LoginIdle EXCEPT !.timers = login.timers - 1]
    /\ UNCHANGED <<status, isApiKeySelected, apiKeyError, error,
                   uploadProgress, activeRagStoreName, chatHistory,
                   isQueryLoading, exampleQuestions, documentName, files,
                   ragStoreNameRef, ai, runs, nRuns, queries, nStores,
                   deleteCalls>>
    /\ UNCHANGED <<gates, renderVars>>

\* the messages handleSendMessage builds
UserMessage(message) == [role |-> "user", text |-> message]
ModelMessage(result) ==
    [role |-> "model", text |-> result.text,
     groundingChunks |-> result.groundingChunks, isCrisis |-> result.isCrisis]
ApologyMessage == [role |-> "model", text |-> MSG_APOLOGY]

\* geminiService.fileSearch: the result of the crisis short-circuit and of
\* an answered remote call
CrisisResult == [text |-> MSG_CRISIS, groundingChunks |-> <<>>, isCrisis |-> TRUE]
AnswerResult(text, chunks) ==
    [text |-> text, groundingChunks |-> chunks, isCrisis |-> FALSE]

\* ChatInterface.handleSubmit -> App.handleSendMessage up to the point where
\* fileSearch awaits the remote call.  The input is enabled only while no
\* query is loading, and blank input is not submitted.
HandleSendMessage(message) ==
    /\ status = "Chatting"
    /\ ~isQueryLoading
    /\ Trim(message) # <<>>
    /\ Len(chatHistory) < MaxChat
    /\ ragStoreNameRef' = activeRagStoreName
    /\ IF activeRagStoreName = Null
       THEN \* `if (!activeRagStoreName) return;`
            /\ gates' = <<"activeRagStoreName">>
            /\ UNCHANGED <<chatHistory, isQueryLoading, error, status, queries>>
       ELSE IF ~ai
       THEN \* fileSearch throws "not initialized": catch and finally run
            /\ gates' = <<"activeRagStoreName", "ai">>
            /\ chatHistory' = chatHistory \o <<UserMessage(message), ApologyMessage>>
            /\ error' = ErrorText(MSG_QUERY_FAILED, <<"not initialized">>)
            /\ status' = "Error"
            /\ UNCHANGED <<isQueryLoading, queries>>
       ELSE IF IsCrisisQuery(message)
       THEN \* fileSearch returns without a remote call
            /\ gates' = <<"activeRagStoreName", "ai", "crisis">>
            /\ chatHistory' = chatHistory \o
                 <<UserMessage(message), ModelMessage(CrisisResult)>>
            /\ UNCHANGED <<isQueryLoading, error, status, queries>>
       ELSE /\ gates' = <<"activeRagStoreName", "ai", "crisis">>
            /\ chatHistory' = Append(chatHistory, UserMessage(message))
            /\ isQueryLoading' = TRUE
            /\ queries' = Append(queries,
                 [store |-> activeRagStoreName, query |-> message])
            /\ UNCHANGED <<error, status>>
    /\ UNCHANGED <<isApiKeySelected, apiKeyError, uploadProgress,
                   activeRagStoreName, exampleQuestions, documentName,
                   files, ai, runs, nRuns, nStores, deleteCalls>>
    /\ LoginFrame
    /\ UNCHANGED renderVars

RemoveAt(seq, k) == SubSeq(seq, 1, k - 1) \o SubSeq(seq, k + 1, Len(seq))

\* variant of the continuation that overwrites the last message with the
\* answer
QueryReturn_ReplacesLast(k, out) ==
    /\ k \in 1..Len(queries)
    /\ IF out = Ok
       THEN /\ chatHistory' =
                 [chatHistory EXCEPT ![Len(chatHistory)] =
                    ModelMessage(AnswerResult(ANSWER, CHUNKS))]
            /\ UNCHANGED <<error, status>>
       ELSE /\ chatHistory' = Append(chatHistory, ApologyMessage)
            /\ error' = ErrorText(MSG_QUERY_FAILED, out.message)
            /\ status' = "Error"
    /\ isQueryLoading' = FALSE
    /\ queries' = RemoveAt(queries, k)
    /\ ragStoreNameRef' = activeRagStoreName
    /\ UNCHANGED <<isApiKeySelected, apiKeyError, uploadProgress,
                   activeRagStoreName, exampleQuestions, documentName,
                   files, ai, runs, nRuns, nStores, deleteCalls>>
    /\ LoginFrame
    /\ UNCHANGED <<gates, renderVars>>

\* variant of the continuation without the finally block: after a failure
\* the loading flag is left as it is
QueryReturn_NoFinally(k, out) ==
    /\ k \in 1..Len(queries)
    /\ IF out = Ok
       THEN /\ chatHistory' =
                 Append(chatHistory, ModelMessage(AnswerResult(ANSWER, CHUNKS)))
            /\ isQueryLoading' = FALSE
            /\ UNCHANGED <<error, status>>
       ELSE /\ chatHistory' = Append(chatHistory, ApologyMessage)
            /\ error' = ErrorText(MSG_QUERY_FAILED, out.message)
            /\ status' = "Error"
            /\ UNCHANGED isQueryLoading
    /\ queries' = RemoveAt(queries, k)
    /\ ragStoreNameRef' = activeRagStoreName
    /\ UNCHANGED <<isApiKeySelected, apiKeyError, uploadProgress,
                   activeRagStoreName, exampleQuestions, documentName,
                   files, ai, runs, nRuns, nStores, deleteCalls>>
    /\ LoginFrame
    /\ UNCHANGED <<gates, renderVars>>

\* handleSendMessage resumes from `await fileSearch` for the k-th query in
\* flight.  out: Ok (the remote answered) or a remote failure.
QueryReturn(k, out) ==
    /\ k \in 1..Len(queries)
    /\ IF out = Ok
       THEN /\ chatHistory' =
                 Append(chatHistory, ModelMessage(AnswerResult(ANSWER, CHUNKS)))
            /\ UNCHANGED <<error, status>>
       ELSE /\ chatHistory' = Append(chatHistory, ApologyMessage)
            /\ error' = ErrorText(MSG_QUERY_FAILED, out.message)
            /\ status' = "Error"
    /\ isQueryLoading' = FALSE
    /\ queries' = RemoveAt(queries, k)
    /\ ragStoreNameRef' = activeRagStoreName
    /\ UNCHANGED <<isApiKeySelected, apiKeyError, uploadProgress,
                   activeRagStoreName, exampleQuestions, documentName,
                   files, ai, runs, nRuns, nStores, deleteCalls>>
    /\ LoginFrame
    /\ UNCHANGED <<gates, renderVars>>

\* geminiService.deleteRagStore(name): the request is sent once the client
\* exists; otherwise the call rejects and the caller only logs it
DeleteRagStore(name) ==
    IF ai
    THEN deleteCalls' = [deleteCalls EXCEPT ![name] = @ + 1]
    ELSE UNCHANGED deleteCalls

\* variant of end-session that leaves the active store name in place
HandleEndChat_KeepsStore ==
    /\ status = "Chatting"
    /\ IF activeRagStoreName # Null
       THEN DeleteRagStore(activeRagStoreName)
       ELSE UNCHANGED deleteCalls
    /\ chatHistory' = <<>>
    /\ exampleQuestions' = <<>>
    /\ documentName' = ""
    /\ files' = <<>>
    /\ status' = "Welcome"
    /\ ragStoreNameRef' = activeRagStoreName
    /\ UNCHANGED <<isApiKeySelected, apiKeyError, error, uploadProgress,
                   activeRagStoreName, isQueryLoading, ai, runs, nRuns,
                   queries, nStores>>
    /\ LoginFrame
    /\ UNCHANGED <<gates, renderVars>>

\* variant of end-session that leaves the conversation in place
HandleEndChat_KeepsHistory ==
    /\ status = "Chatting"
    /\ IF activeRagStoreName # Null
       THEN DeleteRagStore(activeRagStoreName)
       ELSE UNCHANGED deleteCalls
    /\ activeRagStoreName' = Null
    /\ exampleQuestions' = <<>>
    /\ documentName' = ""
    /\ files' = <<>>
    /\ status' = "Welcome"
    /\ ragStoreNameRef' = Null
    /\ UNCHANGED <<isApiKeySelected, apiKeyError, error, uploadProgress,
                   chatHistory, isQueryLoading, ai, runs, nRuns, queries,
                   nStores>>
    /\ LoginFrame
    /\ UNCHANGED <<gates, renderVars>>

\* variant of end-session that also re-enables the message input
HandleEndChat_ResetsLoading ==
    /\ status = "Chatting"
    /\ IF activeRagStoreName # Null
       THEN DeleteRagStore(activeRagStoreName)
       ELSE UNCHANGED deleteCalls
    /\ activeRagStoreName' = Null
    /\ chatHistory' = <<>>
    /\ exampleQuestions' = <<>>
    /\ documentName' = ""
    /\ files' = <<>>
    /\ status' = "Welcome"
    /\ isQueryLoading' = FALSE
    /\ ragStoreNameRef' = Null
    /\ UNCHANGED <<isApiKeySelected, apiKeyError, error, uploadProgress,
                   ai, runs, nRuns, queries, nStores>>
    /\ LoginFrame
    /\ UNCHANGED <<gates, renderVars>>

\* App.handleEndChat (the log-out button of ChatInterface)
HandleEndChat ==
    /\ status = "Chatting"
    /\ IF activeRagStoreName # Null
       THEN DeleteRagStore(activeRagStoreName)
       ELSE UNCHANGED deleteCalls
    /\ activeRagStoreName' = Null
    /\ chatHistory' = <<>>
    /\ exampleQuestions' = <<>>
    /\ documentName' = ""
    /\ files' = <<>>
    /\ status' = "Welcome"
    /\ ragStoreNameRef' = Null
    /\ UNCHANGED <<isApiKeySelected, apiKeyError, error, uploadProgress,
                   isQueryLoading, ai, runs, nRuns, queries, nStores>>
    /\ LoginFrame
    /\ UNCHANGED <<gates, renderVars>>

\* The remote answers a delete request of this page (the catch callback of
\* handleEndChat): a failure is logged, nothing of the session is touched.
DeleteReturn(name, ok) ==
    /\ status # "Initializing"
    /\ deleteCalls[name] > 0
    /\ UNCHANGED vars

\* App.clearError (the restart button of the error screen)
ClearError ==
    /\ status = "Error"
    /\ error' = Null
    /\ status' = "Welcome"
    /\ ragStoreNameRef' = activeRagStoreName
    /\ UNCHANGED <<isApiKeySelected, apiKeyError, uploadProgress,
                   activeRagStoreName, chatHistory, isQueryLoading,
                   exampleQuestions, documentName, files, ai, runs, nRuns,
                   queries, nStores, deleteCalls>>
    /\ LoginFrame
    /\ UNCHANGED <<gates, renderVars>>

\* App: useEffect(() => { ragStoreNameRef.current = activeRagStoreName }),
\* run after the commit that changed activeRagStoreName has been painted
RefEffect ==
    /\ ragStoreNameRef # activeRagStoreName
    /\ ragStoreNameRef' = activeRagStoreName
    /\ UNCHANGED <<status, isApiKeySelected, apiKeyError, error,
                   uploadProgress, activeRagStoreName, chatHistory,
                   isQueryLoading, exampleQuestions, documentName, files,
                   ai, runs, nRuns, queries, nStores, deleteCalls>>
    /\ LoginFrame
    /\ UNCHANGED <<gates, renderVars>>

\* App.handleUnload (beforeunload).  The page goes away with its state, its
\* suspended handlers and the answers still due to it; what the remote holds
\* stays.  A later load of the page starts from the initial client state.
HandleUnload ==
    /\ IF ragStoreNameRef # Null
       THEN deleteCalls' = [deleteCalls EXCEPT ![ragStoreNameRef] =
                               IF ai THEN @ + 1 ELSE @]
       ELSE UNCHANGED deleteCalls
    /\ status' = "Initializing"
    /\ isApiKeySelected' = FALSE
    /\ apiKeyError' = Null
    /\ error' = Null
    /\ uploadProgress' = Null
    /\ activeRagStoreName' = Null
    /\ chatHistory' = <<>>
    /\ isQueryLoading' = FALSE
    /\ exampleQuestions' = <<>>
    /\ documentName' = ""
    /\ files' = <<>>
    /\ ragStoreNameRef' = Null
    /\ ai' = FALSE
    /\ runs' = [r \in 1..MaxRuns |-> NoRun]
    /\ queries' = <<>>
    /\ UNCHANGED <<nRuns, nStores>>
    /\ LoginFrame
    /\ gates' = <<>>
    /\ UNCHANGED renderVars

Next ==
    \/ Startup
    \/ \E probe \in {"true", "false", "throw"} : CheckApiKey(probe)
    \/ \E probe \in {"true", "false", "throw"} : HandleSelectKey(probe)
    \/ \E f \in FileRefs : AddFile(f)
    \/ \E k \in 1..MaxFiles : RemoveFile(k)
    \/ \E initOk \in BOOLEAN : HandleAdminSetupStart(initOk)
    \/ HandleAdminSetupRejected
    \/ \E r \in 1..MaxRuns, out \in {Ok, NoName} \cup Failures : CreateReturn(r, out)
    \/ \E r \in 1..MaxRuns, out \in {Done, Pending} \cup Failures : UploadReturn(r, out)
    \/ \E r \in 1..MaxRuns, out \in {Done, Pending} \cup Failures : PollReturn(r, out)
    \/ \E r \in 1..MaxRuns, payload \in SessionPayloads : GenerateReturn(r, payload)
    \/ \E r \in 1..MaxRuns : ProvisionDone(r)
    \/ \E phone \in Phones : SetPhone(phone)
    \/ \E birthday \in Birthdays : SetBirthday(birthday)
    \/ HandlePhoneSubmit
    \/ LoginBack
    \/ HandleBirthdaySubmit
    \/ LoginResetTimer
    \/ \E message \in UserTexts : HandleSendMessage(message)
    \/ \E k \in 1..MaxChat, out \in {Ok} \cup QueryFailures : QueryReturn(k, out)
    \/ HandleEndChat
    \/ \E name \in Stores, ok \in BOOLEAN : DeleteReturn(name, ok)
    \/ ClearError
    \/ RefEffect
    \/ HandleUnload

Spec == Init /\ [][Next]_vars

\* The remote answers every upload call and every status check, and the
\* 3 s delay before a status check elapses.
LiveSpec ==
    /\ Spec
    /\ \A r \in 1..MaxRuns :
          /\ WF_vars(\E out \in {Done, Pending} \cup Failures : UploadReturn(r, out))
          /\ WF_vars(\E out \in {Done, Pending} \cup Failures : PollReturn(r, out))

\* The remote answers or rejects every fileSearch call that was issued.
QueryLiveSpec ==
    /\ Spec
    /\ \A k \in 1..MaxChat :
          WF_vars(\E out \in {Ok} \cup QueryFailures : QueryReturn(k, out))

\* ------------------------------------------- ChatInterface.renderMarkdown
\* A string is a sequence of one-character strings, "\n" among them.  The
\* output is the same kind of sequence in which each piece of markup the
\* renderer writes is one element ("<p>", "</ul>", ...); the class
\* attributes of the tags are left out.  Characters taken from the input stay
\* one-character elements, "<" and ">" included: the code concatenates them
\* into the output as they are.

\* the first index at or after `from` where pat occurs in s, or 0
IndexOf(s, pat, from) ==
    LET hits == {j \in from..(Len(s) - Len(pat) + 1) :
                    SubSeq(s, j, j + Len(pat) - 1) = pat}
    IN  IF hits = {} THEN 0 ELSE CHOOSE j \in hits : \A k \in hits : j <= k

\* String.prototype.startsWith
StartsWith(s, pat) == Len(s) >= Len(pat) /\ SubSeq(s, 1, Len(pat)) = pat

\* text.split('\n')
RECURSIVE Split(_)
Split(s) ==
    LET k == IndexOf(s, <<"\n">>, 1)
    IN  IF k = 0 THEN <<s>>
        ELSE <<SubSeq(s, 1, k - 1)>> \o Split(SubSeq(s, k + 1, Len(s)))

\* String.prototype.replace with a global pattern d1(...)d1|d2(...)d2 whose
\* group is lazy (.*?, least = 0) or [^d]+ (least = 1): scanning from i, a
\* delimiter that has its closing delimiter after at least `least`
\* characters is replaced together with it by open ... close, and the scan
\* goes on behind the match; any other character is copied.
RECURSIVE ReplaceDelimited(_, _, _, _, _, _, _)
ReplaceDelimited(s, i, d1, d2, least, open, close) ==
    IF i > Len(s) THEN <<>>
    ELSE LET d == IF IndexOf(s, d1, i) = i THEN d1
                  ELSE IF IndexOf(s, d2, i) = i THEN d2
                  ELSE <<>>
             j == IF d = <<>> THEN 0 ELSE IndexOf(s, d, i + Len(d))
         IN  IF j # 0 /\ j - (i + Len(d)) >= least
             THEN <<open>> \o SubSeq(s, i + Len(d), j - 1) \o <<close>>
                    \o ReplaceDelimited(s, j + Len(d), d1, d2, least, open, close)
             ELSE <<s[i]>>
                    \o ReplaceDelimited(s, i + 1, d1, d2, least, open, close)

\* .replace(/\*\*(.*?)\*\*|__(.*?)__/g, '<strong>$1$2</strong>')
Strong(line) ==
    ReplaceDelimited(line, 1, <<"*", "*">>, <<"_", "_">>, 0, "<strong>", "</strong>")

\* .replace(/\*(.*?)\*|_(.*?)_/g, '<em>$1$2</em>')
Em(line) ==
    ReplaceDelimited(line, 1, <<"*">>, <<"_">>, 0, "<em>", "</em>")

\* .replace(/`([^`]+)`/g, '<code ...>$1</code>'); the backtick is written
\* by its code point
Code(line) ==
    ReplaceDelimited(line, 1, <<"U0060">>, <<"U0060">>, 1, "<code>", "</code>")

\* the three replacements of lines 80-83, in their order
InlineTransforms(line) == Code(Em(Strong(line)))

\* \s and \d
WhiteSpace == {" "}
Digits == {"0", "1", "2", "3", "4", "5", "6", "7", "8", "9"}

\* the number of consecutive elements of s from index i on that are in set
RECURSIVE RunLength(_, _, _)
RunLength(s, i, set) ==
    IF i <= Len(s) /\ s[i] \in set THEN 1 + RunLength(s, i + 1, set) ELSE 0

\* line.match(/^\s*\d+\.\s(.*)/): the index where group 1 starts, 0 if the
\* line does not match
IsOl(line) ==
    LET k == RunLength(line, 1, WhiteSpace)
        m == RunLength(line, k + 1, Digits)
    IN  IF /\ m >= 1
           /\ Len(line) >= k + m + 2
           /\ line[k + m + 1] = "."
           /\ line[k + m + 2] \in WhiteSpace
        THEN k + m + 3 ELSE 0

\* line.match(/^\s*[\*\-]\s(.*)/): the index where group 1 starts, 0 if the
\* line does not match
IsUl(line) ==
    LET k == RunLength(line, 1, WhiteSpace)
    IN  IF /\ Len(line) >= k + 2
           /\ line[k + 1] \in {"*", "-"}
           /\ line[k + 2] \in WhiteSpace
        THEN k + 3 ELSE 0

\* flushPara: what it appends to html
FlushPara(buffer) ==
    IF buffer # <<>> THEN <<"<p>">> \o buffer \o <<"</p>">> ELSE <<>>

\* variant of flushList that writes no closing tag
FlushList_Never(type) == <<>>

\* flushList: what it appends to html
FlushList(type) ==
    IF type = "ul" THEN <<"</ul>">>
    ELSE IF type = "ol" THEN <<"</ol>">>
    ELSE <<>>

\* variant that starts a new list for every list line
StartList_Always(current, type) ==
    FlushList(current) \o <<IF type = "ul" THEN "<ul>" ELSE "<ol>">>

\* `if (listType !== type) { flushList(); html += '<type ...>'; }`
StartList(current, type) ==
    IF current # type
    THEN FlushList(current) \o <<IF type = "ul" THEN "<ul>" ELSE "<ol>">>
    ELSE <<>>

\* `<li>${isOl[1]}</li>`
OlItem(content) == <<"<li>">> \o content \o <<"</li>">>

\* `<li ...><span ...>&bull;</span><span>${isUl[1]}</span></li>`
UlItem(content) ==
    <<"<li>", "<span>", "U2022", "</span>", "<span>">> \o content
      \o <<"</span>", "</li>">>

\* variant that joins the lines of a paragraph without a line break
AppendPara_NoBreak(buffer, line) == buffer \o line

\* `paraBuffer += (paraBuffer ? '<br/>' : '') + line`
AppendPara(buffer, line) ==
    buffer \o (IF buffer # <<>> THEN <<"<br/>">> ELSE <<>>) \o line

\* the branch of the loop body a line takes: the heading tests on rawLine
\* (lines 69, 74), the list tests on the line after the inline replacements
\* (85-88, 96), the blank test (107)
LineClass(rawLine) ==
    LET line == InlineTransforms(rawLine)
    IN  IF StartsWith(rawLine, <<"#", " ">>) THEN "h1"
        ELSE IF StartsWith(rawLine, <<"#", "#", " ">>) THEN "h2"
        ELSE IF IsOl(line) # 0 THEN "ol"
        ELSE IF IsUl(line) # 0 THEN "ul"
        ELSE IF Trim(line) = <<>> THEN "blank"
        ELSE "plain"

\* the body of the loop over the lines (lines 66-112) for one rawLine: the
\* text appended to html and the values of listType and paraBuffer after it
LineStep(rawLine, type, buffer) ==
    LET line  == InlineTransforms(rawLine)
        class == LineClass(rawLine)
    IN  CASE class = "h1" ->
               [out |-> FlushPara(buffer) \o FlushList(type) \o <<"<h1>">>
                          \o SubSeq(rawLine, 3, Len(rawLine)) \o <<"</h1>">>,
                listType |-> "null", paraBuffer |-> <<>>]
          [] class = "h2" ->
               [out |-> FlushPara(buffer) \o FlushList(type) \o <<"<h2>">>
                          \o SubSeq(rawLine, 4, Len(rawLine)) \o <<"</h2>">>,
                listType |-> "null", paraBuffer |-> <<>>]
          [] class = "ol" ->
               [out |-> FlushPara(buffer) \o StartList(type, "ol")
                          \o OlItem(SubSeq(line, IsOl(line), Len(line))),
                listType |-> "ol", paraBuffer |-> <<>>]
          [] class = "ul" ->
               [out |-> FlushPara(buffer) \o StartList(type, "ul")
                          \o UlItem(SubSeq(line, IsUl(line), Len(line))),
                listType |-> "ul", paraBuffer |-> <<>>]
          [] class = "blank" ->
               [out |-> FlushList(type) \o FlushPara(buffer),
                listType |-> "null", paraBuffer |-> <<>>]
          [] class = "plain" ->
               [out |-> FlushList(type),
                listType |-> "null", paraBuffer |-> AppendPara(buffer, line)]

\* the frame of a renderMarkdown step: the rest of the client is not involved
AppUnchanged ==
    UNCHANGED <<status, isApiKeySelected, apiKeyError, error, uploadProgress,
                activeRagStoreName, chatHistory, isQueryLoading,
                exampleQuestions, documentName, files, ragStoreNameRef, ai,
                runs, nRuns, queries, nStores, deleteCalls, login, gates>>

\* `if (!text) return { __html: '' };`
RenderEmpty ==
    /\ ~returned
    /\ markdown = <<>>
    /\ returned' = TRUE
    /\ UNCHANGED <<markdown, lineNo, html, listType, paraBuffer>>
    /\ AppUnchanged

\* one iteration of `for (const rawLine of lines)`
RenderLine ==
    /\ ~returned
    /\ markdown # <<>>
    /\ lineNo < Len(Split(markdown))
    /\ LET step == LineStep(Split(markdown)[lineNo + 1], listType, paraBuffer)
       IN  /\ html' = html \o step.out
           /\ listType' = step.listType
           /\ paraBuffer' = step.paraBuffer
    /\ lineNo' = lineNo + 1
    /\ UNCHANGED <<markdown, returned>>
    /\ AppUnchanged

\* after the loop: flushPara(); flushList(); return { __html: html }
RenderEnd ==
    /\ ~returned
    /\ markdown # <<>>
    /\ lineNo = Len(Split(markdown))
    /\ html' = html \o FlushPara(paraBuffer) \o FlushList(listType)
    /\ paraBuffer' = <<>>
    /\ listType' = "null"
    /\ returned' = TRUE
    /\ UNCHANGED <<markdown, lineNo>>
    /\ AppUnchanged

\* the lines the rendered texts are made of
L_BLANK     == <<>>
L_SPACE     == <<" ">>
L_PLAIN     == <<"a">>
L_WORDS     == <<"a", " ", "b">>
L_H1        == <<"#", " ", "T">>
L_H2        == <<"#", "#", " ", "T">>
L_UL_DASH   == <<"-", " ", "a">>
L_UL_STAR   == <<"*", " ", "b">>
L_OL        == <<"1", ".", " ", "a">>
L_BOLD      == <<"*", "*", "a", "*", "*">>
L_ITALIC    == <<"_", "a", "_">>
L_CODE      == <<"U0060", "a", "U0060">>
L_UNMATCHED == <<"*", "*", "a">>
L_TAG       == <<"<", "a", ">">>
L_HASH      == <<"#", "a">>
L_STAR      == <<"a", "*">>

SampleLines ==
    {L_BLANK, L_SPACE, L_PLAIN, L_WORDS, L_H1, L_H2, L_UL_DASH, L_UL_STAR,
     L_OL, L_BOLD, L_ITALIC, L_CODE, L_UNMATCHED, L_TAG, L_HASH, L_STAR}

\* lines.join('\n')
RECURSIVE Join(_)
Join(ls) ==
    IF Len(ls) = 1 THEN ls[1] ELSE ls[1] \o <<"\n">> \o Join(Tail(ls))

\* "# T\n- a\n- a\n\na": heading, two unordered items, blank, plain
EXAMPLE == Join(<<L_H1, L_UL_DASH, L_UL_DASH, L_BLANK, L_PLAIN>>)

Texts ==
    {Join(ls) : ls \in UNION {[1..n -> SampleLines] : n \in 1..MaxLines}}
      \cup {EXAMPLE}

RenderInit ==
    /\ AppInit
    /\ markdown \in Texts
    /\ RenderIdle

RenderNext ==
    \/ RenderEmpty
    \/ RenderLine
    \/ RenderEnd

\* renderMarkdown applied to every text of Texts
RenderSpec == RenderInit /\ [][RenderNext]_vars

\* ===================================================================
\* Properties
\* ===================================================================

Last(seq) == seq[Len(seq)]

\* a chat message carries a true isCrisis field
FlaggedCrisis(m) == "isCrisis" \in DOMAIN m /\ m.isCrisis = TRUE

\* run r fails at this step with message m (the catch block runs)
ProvisionFailsWith(r, m) ==
    \/ CreateReturn(r, Failure(m))
    \/ UploadReturn(r, Failure(m))
    \/ PollReturn(r, Failure(m))

\* the gateway calls of a run other than status checks
RECURSIVE WithoutPolls(_)
WithoutPolls(calls) ==
    IF calls = <<>> THEN <<>>
    ELSE IF Head(calls)[1] = "poll" THEN WithoutPolls(Tail(calls))
         ELSE <<Head(calls)>> \o WithoutPolls(Tail(calls))

\* C1: activeStoreId is non-null exactly when status is Binding or Chatting.
C1_StoreIffBindingOrChatting ==
    (activeRagStoreName # Null) <=> (status \in {"Binding", "Chatting"})

\* C2: when the query of a sent message fails while Chatting, exactly one
\* apology Message is appended, status stays Chatting and the full-screen
\* error text is not set.
C2_QueryFailureAbsorbed ==
    [][ \A k \in 1..MaxChat, out \in QueryFailures :
          (status = "Chatting" /\ QueryReturn(k, out))
            => /\ chatHistory' = Append(chatHistory, ApologyMessage)
               /\ status' = "Chatting"
               /\ error' = Null ]_vars

\* the text, lower-cased, contains a configured crisis keyword
MentionsCrisis(text) ==
    \E k \in 1..Len(CRISIS_KEYWORDS) :
       \E i \in 0..(Len(text) - Len(CRISIS_KEYWORDS[k])) :
          \A j \in 1..Len(CRISIS_KEYWORDS[k]) :
             ToLowerChar(text[i + j]) = CRISIS_KEYWORDS[k][j]

\* C3: a message sent in Chatting whose lower-cased text contains a crisis
\* keyword never reaches the remote answering call and is answered by a
\* Message with isCrisis = true; the reply to any other message is not
\* flagged, and isCrisis = false when the remote answered.
C3_CrisisShortCircuit ==
    /\ [](\A k \in 1..Len(queries) : ~MentionsCrisis(queries[k].query))
    /\ [][ \A m \in UserTexts :
             (HandleSendMessage(m) /\ MentionsCrisis(m))
               => /\ queries' = queries
                  /\ chatHistory' = chatHistory \o
                        <<UserMessage(m), Last(chatHistory')>>
                  /\ Last(chatHistory').role = "model"
                  /\ FlaggedCrisis(Last(chatHistory')) ]_vars
    /\ [][ \A m \in UserTexts :
             (HandleSendMessage(m) /\ ~MentionsCrisis(m))
               => /\ queries' = Append(queries,
                        [store |-> activeRagStoreName, query |-> m])
                  /\ chatHistory' = Append(chatHistory, UserMessage(m)) ]_vars
    /\ [][ \A k \in 1..MaxChat, out \in {Ok} \cup QueryFailures :
             QueryReturn(k, out)
               => /\ Len(chatHistory') = Len(chatHistory) + 1
                  /\ ~FlaggedCrisis(Last(chatHistory'))
                  /\ (out = Ok => Last(chatHistory').isCrisis = FALSE) ]_vars

C3_Witness ==
    \E i \in 1..(Len(chatHistory) - 1) :
       /\ chatHistory[i] = UserMessage(Q_SUICIDE)
       /\ FlaggedCrisis(chatHistory[i + 1])
       /\ queries = <<>>

\* C4: at most one created store whose deletion has not been requested
\* exists at any time.
C4_AtMostOneUndeletedStore ==
    Cardinality({n \in 1..nStores : deleteCalls[StoreName(n)] = 0}) <= 1

\* C5: end-session in Chatting issues one delete request for the active
\* store, and no store ever receives a second delete request.
C5_EndChatDeletesOnce ==
    /\ [][ HandleEndChat
             => /\ activeRagStoreName # Null
                /\ deleteCalls' = [deleteCalls EXCEPT ![activeRagStoreName] = @ + 1]
                /\ ragStoreNameRef' = Null ]_vars
    /\ [](\A name \in Stores : deleteCalls[name] <= 1)

C5_Witness ==
    /\ status = "Welcome"
    /\ ai
    /\ nRuns = 1
    /\ activeRagStoreName = Null
    /\ deleteCalls[StoreName(1)] = 1

\* C6: end-session takes Chatting to Welcome and in that same step clears
\* activeStoreId, chatHistory, exampleQuestions, documentLabel and
\* pendingFiles, while the delete request is still unanswered; the answer
\* to the delete request changes neither status nor the error text.
C6_EndChatClears ==
    /\ [][ HandleEndChat
             => /\ status = "Chatting"
                /\ status' = "Welcome"
                /\ activeRagStoreName' = Null
                /\ chatHistory' = <<>>
                /\ exampleQuestions' = <<>>
                /\ documentName' = ""
                /\ files' = <<>>
                /\ deleteCalls'[activeRagStoreName] > 0 ]_vars
    /\ [][ \A name \in Stores, ok \in BOOLEAN :
             DeleteReturn(name, ok) => UNCHANGED <<status, error>> ]_vars

C6_Witness ==
    /\ status = "Welcome"
    /\ ai
    /\ nRuns = 1
    /\ deleteCalls[StoreName(1)] = 1
    /\ chatHistory = <<>>
    /\ exampleQuestions = <<>>
    /\ isQueryLoading

\* the calls a successful run over `fs` against `store` issues, in order
ExpectedCalls(fs, store) ==
    << <<"create">> >>
      \o [i \in 1..Len(fs) |-> <<"upload", store, fs[i]>>]
      \o << <<"generate", store>> >>

\* every status check follows the upload of the file it polls, before the
\* next upload starts
PollsFollowTheirUpload(calls) ==
    \A p \in 1..Len(calls) :
       calls[p][1] = "poll"
         => /\ p > 1
            /\ \/ calls[p - 1] = calls[p]
               \/ /\ calls[p - 1][1] = "upload"
                  /\ calls[p - 1][3] = calls[p][2]

StepOf(run) ==
    IF run.pc = "create" THEN 0
    ELSE IF run.pc \in {"upload", "poll"} THEN run.i
    ELSE IF run.pc = "generate" THEN Len(run.files) + 1
    ELSE Len(run.files) + 2

\* run r moves on to its next program point (not a repeated status check)
Advances(r) ==
    /\ runs'[r].pc \in {"create", "upload", "generate", "ready"}
    /\ runs[r].pc # "none" => StepOf(runs'[r]) # StepOf(runs[r])
    /\ runs'[r] # runs[r]

\* C8 as stated: during a run over N files progress.current stays within
\* 1..N+1 and progress.total equals N+2.
C8_ProgressFrom1ToNPlus1 ==
    \A r \in 1..MaxRuns :
       (runs[r].pc # "none" /\ uploadProgress # Null)
         => /\ uploadProgress.current \in 1..(Len(runs[r].files) + 1)
            /\ "total" \in DOMAIN uploadProgress
            /\ uploadProgress.total = Len(runs[r].files) + 2

\* C8 amended: the values a run over N files gives progress.current are
\* 0, 1, ..., N+2 in strictly increasing order (0 while the store is
\* created, k while file k is uploaded, N+1 while questions are generated,
\* N+2 when ready); every update that replaces the progress record sets
\* total to N+2, and the update for a later file keeps the total it finds.
C8_ProgressFrom0ToNPlus2 ==
    [][ \A r \in 1..MaxRuns :
          Advances(r)
            => /\ uploadProgress' # Null
               /\ uploadProgress'.current = StepOf(runs'[r])
               /\ uploadProgress'.current \in 0..(Len(runs'[r].files) + 2)
               /\ runs[r].pc = "none" => uploadProgress'.current = 0
               /\ runs[r].pc # "none"
                    => uploadProgress'.current = StepOf(runs[r]) + 1
               /\ IF runs'[r].pc = "upload" /\ runs[r].pc # "create"
                  THEN IF uploadProgress # Null /\ "total" \in DOMAIN uploadProgress
                       THEN uploadProgress'.total = uploadProgress.total
                       ELSE "total" \notin DOMAIN uploadProgress'
                  ELSE uploadProgress'.total = Len(runs'[r].files) + 2 ]_vars

C8_Witness ==
    \E r \in 1..MaxRuns :
       /\ runs[r].pc = "ready"
       /\ Len(runs[r].files) = 2
       /\ uploadProgress # Null
       /\ uploadProgress.current = 4
       /\ uploadProgress.total = 4

\* C9: with no pending file, start-setup leaves Welcome for Uploading; the
\* run issues createStore and then question generation and nothing else;
\* its completion enters Binding with the generic assistant label.
C9_ZeroFiles ==
    /\ [][ (files = <<>> /\ HandleAdminSetupStart(TRUE))
             => (status = "Welcome" /\ isApiKeySelected /\ status' = "Uploading") ]_vars
    /\ [](\A r \in 1..MaxRuns :
            (runs[r].files = <<>> /\ runs[r].pc \in {"generate", "ready"})
              => runs[r].calls = << <<"create">>, <<"generate", runs[r].store>> >>)
    /\ [][ \A r \in 1..MaxRuns :
             (runs[r].files = <<>> /\ ProvisionDone(r))
               => /\ Len(runs[r].calls) = 2
                  /\ status' = "Binding"
                  /\ documentName' = DOC_GENERIC ]_vars

C9_Witness ==
    /\ status = "Binding"
    /\ documentName = DOC_GENERIC
    /\ activeRagStoreName = StoreName(1)
    /\ nRuns = 1

\* the lower-cased message contains an invalid-credential substring
InvalidCredentialText(m) ==
    \E sub \in {KEY_NOT_VALID, ENTITY_NOT_FOUND} :
       \E i \in 0..(Len(m) - Len(sub)) :
          \A j \in 1..Len(sub) : ToLowerChar(m[i + j]) = sub[j]

\* C10: a provisioning step that fails with an invalid-credential message
\* returns the session to Welcome, clears the credential-selected flag,
\* sets the inline credential error and does not touch the fatal error
\* text; every other provisioning failure enters Error.
C10_FailureClassification ==
    /\ [][ \A r \in 1..MaxRuns, m \in RemoteErrors :
             ProvisionFailsWith(r, m)
               => IF InvalidCredentialText(m)
                  THEN /\ status' = "Welcome"
                       /\ isApiKeySelected' = FALSE
                       /\ apiKeyError' = MSG_KEY_INVALID
                       /\ error' = error
                  ELSE /\ status' = "Error"
                       /\ error' = ErrorText(MSG_START_FAILED, m) ]_vars
    /\ [][ \A r \in 1..MaxRuns :
             CreateReturn(r, NoName)
               => /\ status' = "Error"
                  /\ error' = ErrorText(MSG_START_FAILED, ERR_NO_NAME) ]_vars
    /\ InvalidCredentialText(ERR_BAD_KEY)
    /\ InvalidCredentialText(ERR_NOT_FOUND)
    /\ ~InvalidCredentialText(ERR_FETCH)

C10_Witness ==
    /\ status = "Welcome"
    /\ apiKeyError = MSG_KEY_INVALID
    /\ ~isApiKeySelected
    /\ error = Null
    /\ nStores = 1
    /\ nRuns = 1

\* the fields of the session other than the inline credential error
SessionButKeyError ==
    <<status, isApiKeySelected, error, uploadProgress, activeRagStoreName,
      chatHistory, isQueryLoading, exampleQuestions, documentName, files>>

\* the gateway calls issued so far: calls of the runs, queries, stores
\* created and delete requests
GatewayTraffic == <<runs, nRuns, queries, nStores, deleteCalls, ai>>

\* C11: start-setup in Welcome with the credential-selected flag false is
\* rejected: status stays Welcome, the credential error message is set, no
\* gateway call is issued and no other session field changes; Uploading is
\* entered only by a start-setup that finds the flag true.
C11_StartSetupNeedsCredential ==
    /\ [][ HandleAdminSetupRejected
             => /\ status = "Welcome" /\ status' = "Welcome"
                /\ apiKeyError' = MSG_KEY_REQUIRED
                /\ UNCHANGED SessionButKeyError
                /\ UNCHANGED GatewayTraffic ]_vars
    /\ [][ (status # "Uploading" /\ status' = "Uploading")
             => /\ status = "Welcome"
                /\ isApiKeySelected
                /\ isApiKeySelected' ]_vars
    /\ [][ (status = "Welcome" /\ ~isApiKeySelected) => nRuns' = nRuns ]_vars

C11_Witness ==
    /\ status = "Welcome"
    /\ ~isApiKeySelected
    /\ apiKeyError = MSG_KEY_REQUIRED
    /\ nRuns = 0
    /\ files # <<>>

\* the transitions of the session state machine
DefinedTransitions ==
    { <<"Initializing", "Welcome">>, <<"Welcome", "Uploading">>,
      <<"Uploading", "Binding">>, <<"Uploading", "Welcome">>,
      <<"Uploading", "Error">>, <<"Binding", "Chatting">>,
      <<"Chatting", "Welcome">>, <<"Error", "Welcome">> }

\* C12: every change of status made by the running client is one of the
\* defined transitions; in particular Error is entered only from Uploading.
\* (The unload of the page ends the client and its session; the next load
\* is a new session and is not a transition of this one.)
C12_OnlyDefinedTransitions ==
    [][ (status' # status /\ ~HandleUnload)
          => <<status, status'>> \in DefinedTransitions ]_vars

\* C13: the step from Uploading to Binding leaves pendingFiles empty,
\* documentLabel set, activeStoreId equal to the store this run created and
\* chatHistory empty, and all four hold as long as status is Binding.
C13_BindingEntryState ==
    /\ [][ (status = "Uploading" /\ status' = "Binding")
             => \E r \in 1..MaxRuns :
                   /\ ProvisionDone(r)
                   /\ runs[r].calls[1] = <<"create">>
                   /\ runs[r].store # Null
                   /\ activeRagStoreName' = runs[r].store
                   /\ files' = <<>>
                   /\ documentName' \in {DOC_GENERIC, DOC_KNOWLEDGE}
                   /\ chatHistory' = <<>> ]_vars
    /\ [](status = "Binding"
            => /\ files = <<>>
               /\ documentName \in {DOC_GENERIC, DOC_KNOWLEDGE}
               /\ activeRagStoreName # Null
               /\ chatHistory = <<>>)

\* C14: Chatting is entered only from Binding by a birthday submit whose
\* phone is a key of the patient store and whose birthday is that patient's;
\* on entry chatHistory is exactly one model-role welcome Message addressed
\* to that patient's name.
C14_ChattingOnlyAfterVerification ==
    [][ (status # "Chatting" /\ status' = "Chatting")
          => /\ status = "Binding"
             /\ login.step = "BIRTHDAY"
             /\ login.phone \in MOCK_HIS_DB_Keys
             /\ MOCK_HIS_DB[login.phone].birthday = login.birthday
             /\ Len(chatHistory') = 1
             /\ chatHistory'[1].role = "model"
             /\ chatHistory'[1].text
                  = <<"welcome-back", MOCK_HIS_DB[login.phone].name>> ]_vars

C14_Witness ==
    /\ status = "Chatting"
    /\ chatHistory = << [role |-> "model",
                         text |-> <<"welcome-back", "Chen-Da-Ming">>] >>
    /\ activeRagStoreName = StoreName(1)
    /\ login = LoginIdle

\* the session fields, as against the state of the binding form
SessionFields ==
    <<status, isApiKeySelected, apiKeyError, error, uploadProgress,
      activeRagStoreName, chatHistory, isQueryLoading, exampleQuestions,
      documentName, files>>

\* C15: a birthday submit that fails verification leaves status Binding and
\* every session field unchanged, shows the inline error and arms the reset;
\* the reset returns the form to the phone step with phone, birthday and
\* error cleared; a phone shorter than 10 characters is rejected at the
\* phone step with an inline error and the form stays at the phone step.
C15_FailedVerificationAbsorbed ==
    /\ [][ (HandleBirthdaySubmit
              /\ ~(/\ login.phone \in MOCK_HIS_DB_Keys
                   /\ MOCK_HIS_DB[login.phone].birthday = login.birthday))
             => /\ status = "Binding" /\ status' = "Binding"
                /\ UNCHANGED SessionFields
                /\ UNCHANGED GatewayTraffic
                /\ login'.error = MSG_NOT_FOUND
                /\ login'.step = "BIRTHDAY"
                /\ login'.timers = login.timers + 1 ]_vars
    /\ [][ LoginResetTimer
             => /\ login'.step = "PHONE"
                /\ login'.phone = ""
                /\ login'.birthday = ""
                /\ login'.error = Null
                /\ login'.timers = login.timers - 1
                /\ UNCHANGED SessionFields ]_vars
    /\ [][ (HandlePhoneSubmit /\ Len(login.phone) < 10)
             => /\ login'.step = "PHONE"
                /\ login'.error = MSG_PHONE_INVALID
                /\ UNCHANGED SessionFields ]_vars
    /\ [](login.step = "BIRTHDAY" => Len(login.phone) >= 10)
    /\ [](login.timers = 0 => login.error # MSG_NOT_FOUND)

C15_Witness ==
    /\ status = "Binding"
    /\ login.step = "PHONE"
    /\ login.phone = "0912"
    /\ login.error = MSG_PHONE_INVALID
    /\ login.timers = 1

\* every payload the remote can answer with, up to MaxItems array items
PayloadItems == {Str("q1"), Str("q2"), Num("7")}
ItemArrays == UNION {[1..n -> PayloadItems] : n \in 0..MaxItems}
PayloadValues ==
    {[type |-> "array", items |-> a] : a \in ItemArrays}
      \cup {[type |-> "object", items |-> <<>>]}
AllPayloads ==
    {[kind |-> k, value |-> v] : k \in {"json", "fenced"}, v \in PayloadValues}
      \cup {P_FENCEDBAD, P_GARBAGE, P_ERROR, P_NOTEXT}

\* the payload is a remote error, unparseable text or a non-array value
FormatFailure(payload) ==
    \/ payload.kind \in {"error", "fencedbad", "garbage", "notext"}
    \/ payload.value.type # "array"

\* the questions are at most 4 and, after a format failure, one of the two
\* fixed default lists; otherwise they are string items of the payload
QuestionsWithinContract(payload, questions) ==
    /\ Len(questions) <= 4
    /\ IF FormatFailure(payload)
       THEN /\ questions \in {DEFAULT_QUESTIONS_2, DEFAULT_QUESTIONS_4}
            /\ Len(questions) \in 2..4
       ELSE \A i \in 1..Len(questions) :
               \E j \in 1..Len(payload.value.items) :
                  /\ payload.value.items[j].type = "string"
                  /\ payload.value.items[j].v = questions[i]

\* C16: with the gateway initialized, generateSuggestedQuestions returns for
\* every payload at most 4 strings, and a fixed default list of 2 to 4
\* questions after a remote error, unparseable text or a non-array value;
\* it is only called with the gateway initialized; exampleQuestions never
\* holds more than 4 questions and is a default list after a format failure.
C16_QuestionsBestEffort ==
    /\ \A payload \in AllPayloads \cup Payloads :
          QuestionsWithinContract(payload, GenerateExampleQuestions(payload))
    /\ [](\A r \in 1..MaxRuns : runs[r].pc = "generate" => ai)
    /\ [](Len(exampleQuestions) <= 4)
    /\ [][ \A r \in 1..MaxRuns, payload \in SessionPayloads :
             GenerateReturn(r, payload)
               => /\ QuestionsWithinContract(payload, exampleQuestions')
                  /\ status' = status
                  /\ error' = error ]_vars

C16_Witness ==
    /\ exampleQuestions = DEFAULT_QUESTIONS_2
    /\ status = "Binding"
    /\ error = Null
    /\ FormatFailure(P_ERROR)

\* run r is inside uploadToRagStore for its k-th file
Uploading(r, k) == runs[r].pc \in {"upload", "poll"} /\ runs[r].i = k

C18_CheckApiKeyFrame ==
    [][ (\E probe \in {"true", "false", "throw"} : CheckApiKey(probe))
          => UNCHANGED <<status, activeRagStoreName, chatHistory,
                         exampleQuestions, documentName, files, error,
                         apiKeyError, uploadProgress, isQueryLoading, login,
                         ai, runs, queries, GatewayTraffic>> ]_vars

\* the check has withdrawn the flag after the session was provisioned
C18_Witness ==
    /\ status = "Chatting"
    /\ ~isApiKeySelected
    /\ Len(chatHistory) > 1

\* C19: the crisis-keyword test is the first check a send request
\* evaluates: neither the presence of the active store nor the
\* initialisation of the gateway is tested before it.
C19_CrisisCheckFirst ==
    gates # <<>> => Head(gates) = "crisis"

\* C20: when the page is unloaded, a deletion is requested exactly when an
\* active store is set at that moment, once and for that store; the handler
\* does not wait for the answer.
C20_UnloadDeletesActiveStore ==
    [][ HandleUnload =>
          deleteCalls' = IF activeRagStoreName # Null
                         THEN [deleteCalls EXCEPT ![activeRagStoreName] = @ + 1]
                         ELSE deleteCalls ]_vars

\* the classes of the lines of a text, in line order
Classes(t) == [i \in 1..Len(Split(t)) |-> LineClass(Split(t)[i])]

Block(kind, items) == [kind |-> kind, items |-> items]

\* the blocks a browser finds in html, in document order: headings,
\* paragraphs, and lists with the number of their items; a list that is not
\* closed, or that holds another list, is reported as "broken"
RECURSIVE ParseBlocks(_, _)
ParseBlocks(h, i) ==
    IF i > Len(h) THEN <<>>
    ELSE IF h[i] = "<h1>" THEN <<Block("h1", 0)>> \o ParseBlocks(h, i + 1)
    ELSE IF h[i] = "<h2>" THEN <<Block("h2", 0)>> \o ParseBlocks(h, i + 1)
    ELSE IF h[i] = "<p>" THEN <<Block("p", 0)>> \o ParseBlocks(h, i + 1)
    ELSE IF h[i] \in {"<ul>", "<ol>"}
    THEN LET kind == IF h[i] = "<ul>" THEN "ul" ELSE "ol"
             j    == IndexOf(h, FlushList(kind), i + 1)
             body == SubSeq(h, i + 1, j - 1)
         IN  IF j = 0 \/ \E k \in 1..Len(body) :
                            body[k] \in {"<ul>", "<ol>", "</ul>", "</ol>"}
             THEN <<Block("broken", 0)>> \o ParseBlocks(h, i + 1)
             ELSE <<Block(kind, Cardinality({k \in 1..Len(body) : body[k] = "<li>"}))>>
                    \o ParseBlocks(h, j + 1)
    ELSE ParseBlocks(h, i + 1)

\* the blocks the lines call for: one per heading, one list per maximal run
\* of list lines of one type with an item per line, one paragraph per
\* maximal run of plain lines
RECURSIVE ExpectedBlocks(_)
ExpectedBlocks(cs) ==
    IF cs = <<>> THEN <<>>
    ELSE LET c == Head(cs)
             n == RunLength(cs, 1, {c})
             rest == SubSeq(cs, n + 1, Len(cs))
         IN  IF c \in {"h1", "h2"}
             THEN <<Block(c, 0)>> \o ExpectedBlocks(Tail(cs))
             ELSE IF c \in {"ol", "ul"}
             THEN <<Block(c, n)>> \o ExpectedBlocks(rest)
             ELSE IF c = "plain"
             THEN <<Block("p", 0)>> \o ExpectedBlocks(rest)
             ELSE ExpectedBlocks(Tail(cs))

\* C21: the html renderMarkdown returns holds, in line order, one heading
\* block per heading line, one list block per maximal run of consecutive
\* list lines of one type with one item per line, and one paragraph per
\* maximal run of plain lines; blank lines give no block.
C21_BlocksInLineOrder ==
    returned => ParseBlocks(html, 1) = ExpectedBlocks(Classes(markdown))

\* the example: heading, two unordered items, blank, plain
C21_Witness ==
    /\ returned
    /\ markdown = EXAMPLE
    /\ Classes(markdown) = <<"h1", "ul", "ul", "blank", "plain">>
    /\ ParseBlocks(html, 1) = <<Block("h1", 0), Block("ul", 2), Block("p", 0)>>

\* a text without recognised syntax: no line is a heading, a list item or
\* blank, and no inline replacement matches in any line
NoSyntax(t) ==
    \A i \in 1..Len(Split(t)) :
       /\ LineClass(Split(t)[i]) = "plain"
       /\ InlineTransforms(Split(t)[i]) = Split(t)[i]

\* the text with a line-break marker in the place of every line boundary
BreakLines(t) == [i \in 1..Len(t) |-> IF t[i] = "\n" THEN "<br/>" ELSE t[i]]

\* C22: for a text without recognised syntax renderMarkdown returns the
\* text itself inside one paragraph, each line boundary replaced by a
\* line-break marker at its position.
C22_PlainTextVerbatim ==
    (returned /\ NoSyntax(markdown))
      => html = <<"<p>">> \o BreakLines(markdown) \o <<"</p>">>

\* three lines without syntax, two line boundaries
C22_Witness ==
    /\ returned
    /\ NoSyntax(markdown)
    /\ Split(markdown) = <<L_WORDS, L_STAR, L_HASH>>
    /\ Len(html) = Len(markdown) + 2

\* the only delimiter characters of the line are the two of one `**`
LoneBoldDelimiter(l) ==
    LET at == {i \in 1..Len(l) : l[i] \in {"*", "_", "U0060"}}
    IN  /\ Cardinality(at) = 2
        /\ \E i \in at : i + 1 \in at /\ l[i] = "*" /\ l[i + 1] = "*"

\* C23: renderMarkdown returns for every text, and a plain line with an
\* unmatched `**` is rendered as it is: the delimiter stays literal text in
\* the html and no strong or em element is produced for it.
C23_UnmatchedDelimiterLiteral ==
    returned =>
      \A i \in 1..Len(Split(markdown)) :
         LET l == Split(markdown)[i]
         IN  (LoneBoldDelimiter(l) /\ LineClass(l) = "plain")
               => /\ InlineTransforms(l) = l
                  /\ Includes(html, l)

\* the characters of h at which a browser that parses h as HTML starts a
\* tag the renderer did not write: a "<" taken over from the input
RawMarkup(h) == {i \in 1..Len(h) : h[i] = "<"}

\* C24: the html renderMarkdown returns is display-safe: its only markup
\* is what the renderer wrote, and markup in the input is inert text.
C24_DisplaySafe ==
    returned => RawMarkup(html) = {}

\* the list that is open at the end of h ("null" for none), read from the
\* tags of h, starting at i with list cur open; "broken" if a list is opened
\* inside a list, closed with another type or without being open, if an
\* item stands outside a list, or a paragraph or heading inside one
RECURSIVE OpenList(_, _, _)
OpenList(h, i, cur) ==
    IF i > Len(h) THEN cur
    ELSE IF h[i] \in {"<ul>", "<ol>"}
    THEN IF cur # "null" THEN "broken"
         ELSE OpenList(h, i + 1, IF h[i] = "<ul>" THEN "ul" ELSE "ol")
    ELSE IF h[i] \in {"</ul>", "</ol>"}
    THEN IF cur # (IF h[i] = "</ul>" THEN "ul" ELSE "ol") THEN "broken"
         ELSE OpenList(h, i + 1, "null")
    ELSE IF h[i] \in {"<p>", "<h1>", "<h2>"}
    THEN IF cur # "null" THEN "broken" ELSE OpenList(h, i + 1, cur)
    ELSE IF h[i] = "<li>"
    THEN IF cur = "null" THEN "broken" ELSE OpenList(h, i + 1, cur)
    ELSE OpenList(h, i + 1, cur)

\* C25: after every prefix of the lines at most one block is open: the
\* paragraph buffer and a list are never open together; the lists written
\* to html are opened and closed in turn with matching tags, never nested,
\* the one left open being listType; and at the return nothing is open.
C25_AtMostOneOpenBlock ==
    /\ ~(paraBuffer # <<>> /\ listType # "null")
    /\ OpenList(html, 1, "null") = listType
    /\ returned => (paraBuffer = <<>> /\ listType = "null")

\* an ordered list open after a paragraph and an unordered list were closed
C25_Witness ==
    /\ ~returned
    /\ lineNo = 3
    /\ listType = "ol"
    /\ Includes(html, <<"</p>", "<ul>">>)
    /\ Includes(html, <<"</ul>", "<ol>">>)

\* C26: uploadProgress is set only while status is Uploading; it is cleared
\* when the provisioning run ends, in Binding, Welcome or Error alike.
C26_ProgressOnlyWhileUploading ==
    uploadProgress # Null => status = "Uploading"

\* C27: at most one query is awaiting its answer, isQueryLoading is true
\* exactly while one is, and no message is sent while it is true, also
\* when the query belongs to a session that has been ended since.
C27_OneQueryOutstanding ==
    /\ [](Len(queries) <= 1)
    /\ [](isQueryLoading <=> queries # <<>>)
    /\ [][ (\E m \in UserTexts : HandleSendMessage(m)) => ~isQueryLoading ]_vars

\* a new session is in Chatting while the query of the ended one is out
C27_Witness ==
    /\ status = "Chatting"
    /\ isQueryLoading
    /\ Len(queries) = 1
    /\ queries[1].store # activeRagStoreName

\* a is an initial part of b
IsPrefix(a, b) == Len(a) <= Len(b) /\ SubSeq(b, 1, Len(a)) = a

\* C28: while status stays Chatting chatHistory only grows at its end, by
\* the one message of a setChatHistory call (the crisis short-circuit,
\* whose answer is ready at once, adds the user message and then the model
\* message in the same run); a send appends the user message first, the
\* return of its query appends one model message; a user message is
\* followed by a model message or still awaits it; and chatHistory gets
\* shorter only at end-session, at the completion of a provisioning run
\* (the entry into Binding), or when the page is unloaded.
C28_ChatHistoryAppendOnly ==
    /\ [][ (status = "Chatting" /\ status' = "Chatting")
             => /\ IsPrefix(chatHistory, chatHistory')
                /\ Len(chatHistory') <= Len(chatHistory) + 2
                /\ Len(chatHistory') = Len(chatHistory) + 2
                     => \E m \in UserTexts :
                          /\ HandleSendMessage(m)
                          /\ IsCrisisQuery(m)
                          /\ chatHistory' = chatHistory \o
                               <<UserMessage(m), ModelMessage(CrisisResult)>> ]_vars
    /\ [][ \A m \in UserTexts :
             HandleSendMessage(m)
               => /\ chatHistory'[Len(chatHistory) + 1] = UserMessage(m)
                  /\ \A i \in (Len(chatHistory) + 2)..Len(chatHistory') :
                        chatHistory'[i].role = "model" ]_vars
    /\ [][ \A k \in 1..MaxChat, out \in {Ok} \cup QueryFailures :
             QueryReturn(k, out)
               => /\ IsPrefix(chatHistory, chatHistory')
                  /\ Len(chatHistory') = Len(chatHistory) + 1
                  /\ Last(chatHistory').role = "model" ]_vars
    /\ [](status = "Chatting"
            => \A i \in 1..Len(chatHistory) :
                  chatHistory[i].role = "user"
                    => IF i < Len(chatHistory)
                       THEN chatHistory[i + 1].role = "model"
                       ELSE isQueryLoading)
    /\ [][ Len(chatHistory') < Len(chatHistory)
             => \/ HandleEndChat
                \/ \E r \in 1..MaxRuns : ProvisionDone(r)
                \/ HandleUnload ]_vars

\* the welcome, a question and the remote answer to it
C28_Witness ==
    /\ status = "Chatting"
    /\ Len(chatHistory) = 3
    /\ chatHistory[2].role = "user"
    /\ chatHistory[3] = ModelMessage(AnswerResult(ANSWER, CHUNKS))
    /\ ~isQueryLoading

\* the k-th query in flight was sent in a session that has been ended
LateResponse(k) == k \in 1..Len(queries) /\ queries[k].store # activeRagStoreName

\* C29: the answer or failure of a query whose session has been ended
\* changes neither chatHistory nor status, whatever the status is when it
\* arrives.
C29_LateResponseIgnored ==
    [][ \A k \in 1..MaxChat, out \in {Ok} \cup QueryFailures :
          (LateResponse(k) /\ QueryReturn(k, out))
            => /\ chatHistory' = chatHistory
               /\ status' = status ]_vars

\* C30: the fatal error text is set exactly while status is Error, and
\* within a page session Error is left only by clearError, which sets
\* status to Welcome and clears the text.
C30_ErrorOnlyAcknowledged ==
    /\ [](error # Null <=> status = "Error")
    /\ [][ (status = "Error" /\ status' # "Error" /\ ~HandleUnload)
             => /\ ClearError
                /\ status' = "Welcome"
                /\ error' = Null ]_vars

\* run r ends in the catch block: createRagStore rejected or returned no
\* name, or the upload of a file or one of its status checks rejected
FailedRun(r) ==
    \/ \E out \in {NoName} \cup Failures : CreateReturn(r, out)
    \/ \E out \in Failures : UploadReturn(r, out) \/ PollReturn(r, out)

\* the calls of a run that got as far as the upload of file k of `fs`
CallsUpTo(fs, store, k) ==
    << <<"create">> >> \o [i \in 1..k |-> <<"upload", store, fs[i]>>]

\* C31: provisioning is fail-fast.  When createStore fails the run has
\* issued that call only; when the upload of file k fails (or a status
\* check of it) the run has issued createStore and the uploads of files
\* 1..k, no later upload and no question-generation call; the failure ends
\* the run, so that it issues no call afterwards.  At the failure
\* activeRagStoreName is null and stays null, chatHistory and the pending
\* files are left as they are, and status is not Binding before or after.
C31_ProvisioningFailFast ==
    [][ \A r \in 1..MaxRuns :
          FailedRun(r)
            => /\ runs[r].pc = "create"
                    => runs[r].calls = << <<"create">> >>
               /\ runs[r].pc \in {"upload", "poll"}
                    => /\ WithoutPolls(runs[r].calls)
                            = CallsUpTo(runs[r].files, runs[r].store, runs[r].i)
                       /\ PollsFollowTheirUpload(runs[r].calls)
               /\ runs'[r] = NoRun
               /\ activeRagStoreName = Null
               /\ activeRagStoreName' = Null
               /\ chatHistory' = chatHistory
               /\ files' = files
               /\ files = runs[r].files
               /\ status # "Binding"
               /\ status' # "Binding" ]_vars

\* C32: a send that starts a query sets isQueryLoading, and once the
\* fileSearch call has returned or failed the flag is false again; within a
\* page session the flag is cleared only by the step that appends the
\* reply (the answer or the apology) to chatHistory; a send that is
\* answered at once (the crisis message, or the apology when the client
\* is missing) leaves the flag false with its reply appended.
C32_LoadingEventuallyCleared ==
    /\ isQueryLoading ~> ~isQueryLoading
    /\ [][ (isQueryLoading /\ ~isQueryLoading' /\ ~HandleUnload)
             => /\ \E k \in 1..MaxChat, out \in {Ok} \cup QueryFailures :
                      QueryReturn(k, out)
                /\ Len(chatHistory') = Len(chatHistory) + 1
                /\ Last(chatHistory') \in
                      {ModelMessage(AnswerResult(ANSWER, CHUNKS)), ApologyMessage} ]_vars
    /\ [][ \A m \in UserTexts :
             (HandleSendMessage(m) /\ activeRagStoreName # Null)
               => IF isQueryLoading'
                  THEN /\ Last(queries').query = m
                       /\ Last(chatHistory') = UserMessage(m)
                  ELSE /\ queries' = queries
                       /\ Last(chatHistory') \in
                             {ModelMessage(CrisisResult), ApologyMessage} ]_vars

\* the remote call of a query failed: the apology is shown and the flag is
\* false again
C32_Witness ==
    /\ ~isQueryLoading
    /\ queries = <<>>
    /\ error = ErrorText(MSG_QUERY_FAILED, ERR_FETCH)
    /\ chatHistory # <<>>
    /\ Last(chatHistory) = ApologyMessage

====
